---- MODULE Spec2Model ----
(***************************************************************************)
(* A model of easy_mmap (src/src/lib.rs): the builder EasyMmapBuilder<T>,  *)
(* the buffer EasyMmap<T> it builds over a memory mapping, the backing     *)
(* file of a file-backed mapping, and the accessors of the buffer.         *)
(*                                                                         *)
(* Memory and file contents are sequences of bytes; an element of type T   *)
(* occupies SizeOfT bytes, little endian.  Sizes are machine words of      *)
(* UsizeBits bits.                                                         *)
(***************************************************************************)
EXTENDS Integers, Sequences, FiniteSets, TLC

\* ------------------------------------------------------------------ bounds
\* Largest capacity the builder is given in Spec.
MaxCap == 2
\* Most builder calls chained before build().
MaxCalls == 3
\* Width of usize in bits (64 on the targets of the crate; reduced here).
UsizeBits == 4
\* std::mem::size_of::<T>() for the element type chosen (a 16-bit integer).
SizeOfT == 2

RECURSIVE Pow(_, _)
Pow(b, e) == IF e = 0 THEN 1 ELSE b * Pow(b, e - 1)

\* usize values are 0 .. UsizeModulus - 1
UsizeModulus == Pow(2, UsizeBits)

\* Values of T written by callers, and the bytes of memory.
Val == {0, 258}
ByteModulus == 256

\* mmap::MapOption, the variants the builder handles.
MapReadable == "MapReadable"
MapWritable == "MapWritable"
MapExecutable == "MapExecutable"
MapFd == "MapFd"
MapShared == "MapNonStandardFlags(MAP_SHARED)"

\* Option lists callers pass to options(), and options passed to add_option().
OptionLists == {<<>>, <<MapReadable, MapWritable>>}
AddOptions == {MapExecutable}

\* Contents the backing file may have before the first build().
InitFiles == {<<>>, <<2, 1, 2, 1, 0>>}

VARIABLES
  phase,       \* "config": a builder exists; "built": a buffer exists; "none"
  b_file,      \* EasyMmapBuilder.file is Some
  b_capacity,  \* EasyMmapBuilder.capacity
  b_options,   \* EasyMmapBuilder.options
  chain,       \* the builder calls made on the current builder, in order
  fileBytes,   \* contents of the backing file on disk
  map,         \* EasyMmap._map: [bytes, shared]
  capacity,    \* EasyMmap.capacity
  file,        \* EasyMmap._file is Some
  par,         \* a par_iter_mut().for_each in progress
  saved,       \* elements of the file-backed buffer dropped last, if still on file
  lastOp       \* the last call made and its outcome

vars == <<phase, b_file, b_capacity, b_options, chain, fileBytes, map,
          capacity, file, par, saved, lastOp>>

\* ------------------------------------------------------------ byte helpers
Zeros(n) == [k \in 1..n |-> 0]

\* The SizeOfT bytes of value v, least significant first.
Encode(v) == [k \in 1..SizeOfT |-> (v \div Pow(ByteModulus, k - 1)) % ByteModulus]

RECURSIVE DecodeFrom(_, _, _)
DecodeFrom(bytes, off, k) ==
  IF k = 0 THEN 0
  ELSE bytes[off + 1] + ByteModulus * DecodeFrom(bytes, off + 1, k - 1)

\* The element at index i of the slice laid over bytes.
ElemAt(bytes, i) == DecodeFrom(bytes, i * SizeOfT, SizeOfT)

\* StoreAt with the index not scaled by the element size.
StoreAtUnscaled(bytes, i, v) ==
  [k \in 1..Len(bytes) |->
     IF k > i /\ k <= i + SizeOfT
     THEN Encode(v)[k - i]
     ELSE bytes[k]]

\* bytes with the element at index i overwritten by v.
StoreAt(bytes, i, v) ==
  [k \in 1..Len(bytes) |->
     IF k > i * SizeOfT /\ k <= (i + 1) * SizeOfT
     THEN Encode(v)[k - i * SizeOfT]
     ELSE bytes[k]]

\* Element i lies inside the mapping.
InMapping(bytes, i) == (i + 1) * SizeOfT <= Len(bytes)

\* File::set_len: truncate, or extend with zero bytes.
SetLen(bytes, n) ==
  IF n <= Len(bytes) THEN SubSeq(bytes, 1, n)
  ELSE bytes \o Zeros(n - Len(bytes))

\* ------------------------------------------------------------ call records
\* op: the call; idx, val: its index and value (for build, idx is the
\* capacity built with; for for_each, the number of sub-ranges); res: its
\* outcome; out: what it yields; fn: the function it was given; before: the
\* bytes it found (for build, the file's); chain, options: the builder calls
\* behind a build and the options it handed to the mapping.
NoOp ==
  [op |-> "none", idx |-> 0, val |-> 0, res |-> "ok", out |-> <<>>,
   chain |-> <<>>, options |-> <<>>, fn |-> <<>>, before |-> <<>>,
   prev |-> <<>>]

Op(name) == [NoOp EXCEPT !.op = name]

NoPar == [active |-> FALSE, g |-> <<>>, chunks |-> <<>>, visits |-> <<>>,
          before |-> <<>>]

NoMap == [bytes |-> <<>>, shared |-> FALSE]

NoSaved == [valid |-> FALSE, elems |-> <<>>]

\* ------------------------------------------------------------ the builder
\* EasyMmapBuilder::new
FreshBuilder ==
  /\ b_file' = FALSE
  /\ b_capacity' = 0
  /\ b_options' = <<>>
  /\ chain' = <<>>

Init ==
  /\ phase = "config"
  /\ b_file = FALSE
  /\ b_capacity = 0
  /\ b_options = <<>>
  /\ chain = <<>>
  /\ fileBytes \in InitFiles
  /\ map = NoMap
  /\ capacity = 0
  /\ file = FALSE
  /\ par = NoPar
  /\ saved = NoSaved
  /\ lastOp = Op("new")

BufferUnchanged == UNCHANGED <<fileBytes, map, capacity, file, par, saved>>

Configuring == phase = "config" /\ Len(chain) < MaxCalls

\* EasyMmapBuilder::file
SetFile ==
  /\ Configuring
  /\ b_file' = TRUE
  /\ chain' = Append(chain, <<"file">>)
  /\ lastOp' = Op("file")
  /\ UNCHANGED <<phase, b_capacity, b_options>>
  /\ BufferUnchanged

\* EasyMmapBuilder::capacity
SetCapacity(n) ==
  /\ Configuring
  /\ b_capacity' = n
  /\ chain' = Append(chain, <<"capacity", n>>)
  /\ lastOp' = Op("capacity")
  /\ UNCHANGED <<phase, b_file, b_options>>
  /\ BufferUnchanged

\* options() appending to the list instead of replacing it.
OptionsAfterOptionsAppending(old, list) == old \o list

\* EasyMmapBuilder::options: options.to_vec() replaces the list.
OptionsAfterOptions(old, list) == list

SetOptions(list) ==
  /\ Configuring
  /\ b_options' = OptionsAfterOptions(b_options, list)
  /\ chain' = Append(chain, <<"options", list>>)
  /\ lastOp' = Op("options")
  /\ UNCHANGED <<phase, b_file, b_capacity>>
  /\ BufferUnchanged

\* EasyMmapBuilder::add_option, readable, writable: options.push(option).
OptionsAfterPush(old, option) == Append(old, option)

AddOption(option) ==
  /\ Configuring
  /\ b_options' = OptionsAfterPush(b_options, option)
  /\ chain' = Append(chain, <<"add_option", option>>)
  /\ lastOp' = Op("add_option")
  /\ UNCHANGED <<phase, b_file, b_capacity>>
  /\ BufferUnchanged

Readable ==
  /\ Configuring
  /\ b_options' = OptionsAfterPush(b_options, MapReadable)
  /\ chain' = Append(chain, <<"readable">>)
  /\ lastOp' = Op("readable")
  /\ UNCHANGED <<phase, b_file, b_capacity>>
  /\ BufferUnchanged

Writable ==
  /\ Configuring
  /\ b_options' = OptionsAfterPush(b_options, MapWritable)
  /\ chain' = Append(chain, <<"writable">>)
  /\ lastOp' = Op("writable")
  /\ UNCHANGED <<phase, b_file, b_capacity>>
  /\ BufferUnchanged

\* ------------------------------------------------------------------ build
\* capacity * size_of::<T>() in usize arithmetic.
Overflows(n) == n * SizeOfT >= UsizeModulus

ByteLen(n) == (n * SizeOfT) % UsizeModulus

\* build pushing the descriptor without MAP_SHARED.
BuildOptionsPrivate(options, hasFile) ==
  IF hasFile THEN Append(options, MapFd) ELSE options

\* build: with a file, the descriptor and MAP_SHARED are pushed last.
BuildOptions(options, hasFile) ==
  IF hasFile THEN Append(Append(options, MapFd), MapShared) ELSE options

Has(options, o) == \E k \in 1..Len(options) : options[k] = o

\* MemoryMap::new(len, options): an error for a zero length or when the
\* system refuses, else the mapping: the file's bytes when a descriptor is
\* given, zero pages otherwise; shared when MAP_SHARED is requested.
MemoryMapNew(len, options, osOk, onDisk) ==
  IF len = 0 THEN [err |-> "ErrZeroLength", bytes |-> <<>>, shared |-> FALSE]
  ELSE IF ~osOk THEN [err |-> "ErrNoMem", bytes |-> <<>>, shared |-> FALSE]
  ELSE [err |-> "none",
        bytes |-> IF Has(options, MapFd) THEN SetLen(onDisk, len) ELSE Zeros(len),
        shared |-> Has(options, MapFd) /\ Has(options, MapShared)]

\* The result of MemoryMap::new used without looking at the error.
UnwrapIgnoringError(r) == "ok"

\* The outcome of .unwrap() on the result of MemoryMap::new.
Unwrap(r) == IF r.err = "none" THEN "ok" ELSE "panic"

BuildRecord(res) ==
  [Op("build") EXCEPT !.res = res, !.chain = chain, !.idx = b_capacity,
                      !.options = BuildOptions(b_options, b_file),
                      !.before = fileBytes]

BuildPanics(res, onDisk) ==
  /\ phase' = "none"
  /\ fileBytes' = onDisk
  /\ saved' = IF onDisk = fileBytes THEN saved ELSE NoSaved
  /\ lastOp' = BuildRecord(res)
  /\ FreshBuilder
  /\ UNCHANGED <<map, capacity, file, par>>

\* EasyMmapBuilder::build and EasyMmap::new.  overflowChecks is the build
\* profile (arithmetic overflow panics or wraps), setLenOk whether the file
\* can be resized, osOk whether the system grants the mapping.
Build(overflowChecks, setLenOk, osOk) ==
  /\ phase = "config"
  /\ LET len == ByteLen(b_capacity)
         opts == BuildOptions(b_options, b_file)
         onDisk == IF b_file THEN SetLen(fileBytes, len) ELSE fileBytes
         m == MemoryMapNew(len, opts, osOk, onDisk)
     IN IF Overflows(b_capacity) /\ overflowChecks
        THEN BuildPanics("panic_overflow", fileBytes)
        ELSE IF b_file /\ ~setLenOk
        THEN BuildPanics("panic_set_len", fileBytes)
        ELSE IF Unwrap(m) = "panic"
        THEN BuildPanics("panic_map", onDisk)
        ELSE /\ phase' = "built"
             /\ fileBytes' = onDisk
             /\ map' = [bytes |-> m.bytes, shared |-> m.shared]
             /\ capacity' = b_capacity
             /\ file' = b_file
             /\ lastOp' = BuildRecord("ok")
             /\ FreshBuilder
             /\ UNCHANGED <<par, saved>>

\* ------------------------------------------------------------- the buffer
\* len() returning the byte length of the mapping.
BufLenInBytes == Len(map.bytes)

\* EasyMmap::len
BufLen == capacity

Elements(bytes, n) == [i \in 1..n |-> ElemAt(bytes, i - 1)]

Idle == phase = "built" /\ ~par.active

BuilderUnchanged == UNCHANGED <<phase, b_file, b_capacity, b_options, chain>>

\* A write into the mapping reaches the file when the mapping is shared.
Stored(bytes) ==
  /\ map' = [map EXCEPT !.bytes = bytes]
  /\ fileBytes' = IF map.shared THEN bytes ELSE fileBytes
  /\ saved' = IF map.shared /\ bytes # fileBytes THEN NoSaved ELSE saved

\* The bounds check off by one.
OutOfBoundsOffByOne(index) == index > capacity

\* The bounds check of index and index_mut.
OutOfBounds(index) == index >= BufLen

\* The call made before this one, when it was an index write: its name,
\* index, value and outcome.
Prev ==
  IF lastOp.op = "index_mut"
  THEN <<lastOp.op, lastOp.idx, lastOp.val, lastOp.res>>
  ELSE <<"other", 0, 0, "ok">>

IndexRecord(index) == [Op("index") EXCEPT !.idx = index, !.prev = Prev]

\* Index::index.  Outside the mapping the read is undefined: a fault, or
\* whatever the memory holds.
IndexRead(index) ==
  /\ Idle
  /\ \/ /\ OutOfBounds(index)
        /\ lastOp' = [IndexRecord(index) EXCEPT !.res = "panic"]
     \/ /\ ~OutOfBounds(index)
        /\ InMapping(map.bytes, index)
        /\ lastOp' = [IndexRecord(index) EXCEPT !.val = ElemAt(map.bytes, index)]
     \/ /\ ~OutOfBounds(index)
        /\ ~InMapping(map.bytes, index)
        /\ \/ lastOp' = [IndexRecord(index) EXCEPT !.res = "fault"]
           \/ \E v \in Val :
                lastOp' = [IndexRecord(index) EXCEPT !.val = v]
  /\ BuilderUnchanged
  /\ UNCHANGED <<fileBytes, map, capacity, file, par, saved>>

\* IndexMut::index_mut followed by the assignment through the reference.
IndexWrite(index, v) ==
  /\ Idle
  /\ \/ /\ OutOfBounds(index)
        /\ lastOp' = [Op("index_mut") EXCEPT !.idx = index, !.val = v,
                                             !.res = "panic"]
        /\ UNCHANGED <<fileBytes, map, saved>>
     \/ /\ ~OutOfBounds(index)
        /\ InMapping(map.bytes, index)
        /\ Stored(StoreAt(map.bytes, index, v))
        /\ lastOp' = [Op("index_mut") EXCEPT !.idx = index, !.val = v]
     \/ /\ ~OutOfBounds(index)
        /\ ~InMapping(map.bytes, index)
        /\ \E r \in {"fault", "ok"} :
             lastOp' = [Op("index_mut") EXCEPT !.idx = index, !.val = v,
                                               !.res = r]
        /\ UNCHANGED <<fileBytes, map, saved>>
  /\ BuilderUnchanged
  /\ UNCHANGED <<capacity, file, par>>

\* Dropping the buffer unmaps the memory and closes the file.
Drop ==
  /\ Idle
  /\ phase' = "none"
  /\ saved' = IF file /\ BufLen * SizeOfT <= Len(map.bytes)
              THEN [valid |-> TRUE, elems |-> Elements(map.bytes, BufLen)]
              ELSE saved
  /\ map' = NoMap
  /\ capacity' = 0
  /\ file' = FALSE
  /\ lastOp' = Op("drop")
  /\ UNCHANGED <<b_file, b_capacity, b_options, chain, fileBytes, par>>

\* EasyMmapBuilder::new, once the previous builder or buffer is gone.
NewBuilder ==
  /\ phase = "none"
  /\ phase' = "config"
  /\ FreshBuilder
  /\ lastOp' = Op("new")
  /\ BufferUnchanged

\* get_data_as_slice and iter: the slice _data, in index order.
GetDataAsSlice ==
  /\ Idle
  /\ lastOp' = [Op("get_data_as_slice") EXCEPT
                  !.out = Elements(map.bytes, BufLen)]
  /\ BuilderUnchanged
  /\ UNCHANGED <<fileBytes, map, capacity, file, par, saved>>

Iter ==
  /\ Idle
  /\ lastOp' = [Op("iter") EXCEPT !.out = Elements(map.bytes, BufLen)]
  /\ BuilderUnchanged
  /\ UNCHANGED <<fileBytes, map, capacity, file, par, saved>>

\* get_data_as_slice_mut followed by an assignment to slice[index]; the
\* slice has BufLen elements and checks the index itself.
SliceWrite(index, v) ==
  /\ Idle
  /\ IF index >= BufLen
     THEN /\ lastOp' = [Op("get_data_as_slice_mut") EXCEPT
                          !.idx = index, !.val = v, !.res = "panic"]
          /\ UNCHANGED <<fileBytes, map, saved>>
     ELSE /\ Stored(StoreAt(map.bytes, index, v))
          /\ lastOp' = [Op("get_data_as_slice_mut") EXCEPT
                          !.idx = index, !.val = v]
  /\ BuilderUnchanged
  /\ UNCHANGED <<capacity, file, par>>

\* The loop of fill leaving the last element out.
RECURSIVE FillLoopShort(_, _, _, _)
FillLoopShort(bytes, f, i, n) ==
  IF i + 1 >= n THEN bytes
  ELSE FillLoopShort(StoreAt(bytes, i, f[i]), f, i + 1, n)

\* The loop of fill: elements i .. n-1 set to f(i), in increasing order.
RECURSIVE FillLoop(_, _, _, _)
FillLoop(bytes, f, i, n) ==
  IF i >= n THEN bytes
  ELSE FillLoop(StoreAt(bytes, i, f[i]), f, i + 1, n)

\* EasyMmap::fill
Fill(f) ==
  /\ Idle
  /\ Stored(FillLoop(map.bytes, f, 0, BufLen))
  /\ lastOp' = [Op("fill") EXCEPT !.fn = f, !.before = map.bytes]
  /\ BuilderUnchanged
  /\ UNCHANGED <<capacity, file, par>>

\* Functions callers apply to one element.
ApplyG(g, v) == IF v \in DOMAIN g THEN g[v] ELSE v

GFns ==
  { [v \in Val |-> 258 - v],
    [v \in Val |-> 258] }

\* iter_mut().for_each(g): g applied to elements i .. n-1, in order.
RECURSIVE ForEachLoop(_, _, _, _)
ForEachLoop(bytes, g, i, n) ==
  IF i >= n THEN bytes
  ELSE ForEachLoop(StoreAt(bytes, i, ApplyG(g, ElemAt(bytes, i))), g, i + 1, n)

IterMut(g) ==
  /\ Idle
  /\ Stored(ForEachLoop(map.bytes, g, 0, BufLen))
  /\ lastOp' = [Op("iter_mut") EXCEPT !.fn = g, !.before = map.bytes]
  /\ BuilderUnchanged
  /\ UNCHANGED <<capacity, file, par>>

\* ------------------------------------------------- parallel iteration
Min(S) == CHOOSE x \in S : \A y \in S : x <= y

\* End of the sub-range starting at lo, for a split at the places in cuts.
ChunkEnd(lo, n, cuts) == Min({c \in cuts : c > lo} \cup {n})

\* Sub-ranges that share their boundary elements.
RECURSIVE ChunksOverlapping(_, _, _)
ChunksOverlapping(lo, n, cuts) ==
  IF lo >= n THEN <<>>
  ELSE LET hi == ChunkEnd(lo, n, cuts)
           end == IF hi < n THEN hi + 1 ELSE n
       IN <<[lo |-> lo, hi |-> end, next |-> lo, holding |-> FALSE]>>
          \o ChunksOverlapping(hi, n, cuts)

\* The sub-ranges [lo, hi) the slice of n elements is split into.
RECURSIVE Chunks(_, _, _)
Chunks(lo, n, cuts) ==
  IF lo >= n THEN <<>>
  ELSE LET hi == ChunkEnd(lo, n, cuts)
       IN <<[lo |-> lo, hi |-> hi, next |-> lo, holding |-> FALSE]>>
          \o Chunks(hi, n, cuts)

\* par_iter_mut().for_each(g) begins: the whole slice _data is handed to
\* the parallel engine, which splits it at places of its choosing.
ParIterMut(g, cuts) ==
  /\ Idle
  /\ par' = [active |-> TRUE, g |-> g, chunks |-> Chunks(0, BufLen, cuts),
             visits |-> [i \in 0..(BufLen - 1) |-> 0], before |-> map.bytes]
  /\ lastOp' = Op("par_iter_mut")
  /\ BuilderUnchanged
  /\ UNCHANGED <<fileBytes, map, capacity, file, saved>>

\* A worker takes the mutable reference to the next element of its range.
ParTake(c) ==
  /\ phase = "built" /\ par.active
  /\ c \in DOMAIN par.chunks
  /\ ~par.chunks[c].holding
  /\ par.chunks[c].next < par.chunks[c].hi
  /\ par' = [par EXCEPT !.chunks[c].holding = TRUE]
  /\ lastOp' = [Op("par_take") EXCEPT !.idx = par.chunks[c].next]
  /\ BuilderUnchanged
  /\ UNCHANGED <<fileBytes, map, capacity, file, saved>>

\* The worker applies g through the reference and moves on.
ParApply(c) ==
  /\ phase = "built" /\ par.active
  /\ c \in DOMAIN par.chunks
  /\ par.chunks[c].holding
  /\ LET i == par.chunks[c].next
     IN /\ Stored(StoreAt(map.bytes, i, ApplyG(par.g, ElemAt(map.bytes, i))))
        /\ par' = [par EXCEPT !.chunks[c].holding = FALSE,
                              !.chunks[c].next = i + 1,
                              !.visits[i] = @ + 1]
        /\ lastOp' = [Op("par_apply") EXCEPT !.idx = i]
  /\ BuilderUnchanged
  /\ UNCHANGED <<capacity, file>>

ChunkDone(ch) == ch.next >= ch.hi /\ ~ch.holding

\* for_each returns once every sub-range is done.
ParJoin ==
  /\ phase = "built" /\ par.active
  /\ \A c \in DOMAIN par.chunks : ChunkDone(par.chunks[c])
  /\ par' = NoPar
  /\ lastOp' = [Op("for_each") EXCEPT !.fn = par.g, !.before = par.before,
                                      !.out = par.visits,
                                      !.idx = Len(par.chunks)]
  /\ BuilderUnchanged
  /\ UNCHANGED <<fileBytes, map, capacity, file, saved>>

\* ---------------------------------------------------------- specification
Indices == 0..MaxCap

Next ==
  \/ SetFile
  \/ \E n \in 0..MaxCap : SetCapacity(n)
  \/ \E list \in OptionLists : SetOptions(list)
  \/ \E option \in AddOptions : AddOption(option)
  \/ Readable
  \/ Writable
  \/ \E overflowChecks, setLenOk, osOk \in BOOLEAN :
       Build(overflowChecks, setLenOk, osOk)
  \/ \E index \in Indices : IndexRead(index)
  \/ \E index \in Indices, v \in Val : IndexWrite(index, v)
  \/ GetDataAsSlice
  \/ Iter
  \/ \E index \in Indices, v \in Val : SliceWrite(index, v)
  \/ \E f \in [0..(MaxCap - 1) -> Val] : Fill(f)
  \/ \E g \in GFns : IterMut(g)
  \/ \E g \in GFns, cuts \in SUBSET (1..(MaxCap - 1)) : ParIterMut(g, cuts)
  \/ \E c \in 1..MaxCap : ParTake(c)
  \/ \E c \in 1..MaxCap : ParApply(c)
  \/ ParJoin
  \/ Drop
  \/ NewBuilder

Spec == Init /\ [][Next]_vars

\* Builders given any capacity a usize holds.
InitWide ==
  /\ phase = "config"
  /\ b_file \in BOOLEAN
  /\ b_capacity \in 0..(UsizeModulus - 1)
  /\ b_options = <<MapReadable, MapWritable>>
  /\ chain = <<<<"options", <<MapReadable, MapWritable>>>>,
               <<"capacity", b_capacity>>>>
             \o (IF b_file THEN <<<<"file">>>> ELSE <<>>)
  /\ fileBytes \in InitFiles
  /\ map = NoMap
  /\ capacity = 0
  /\ file = FALSE
  /\ par = NoPar
  /\ saved = NoSaved
  /\ lastOp = Op("new")

NextWide ==
  \/ \E overflowChecks, setLenOk, osOk \in BOOLEAN :
       Build(overflowChecks, setLenOk, osOk)
  \/ \E index \in 0..(UsizeModulus - 1) : IndexRead(index)
  \/ Drop

SpecWide == InitWide /\ [][NextWide]_vars

\* ------------------------------------------------------- builder history
\* Place of the last call of the given name in a chain of calls, 0 if none.
RECURSIVE LastCall(_, _, _)
LastCall(calls, name, k) ==
  IF k = 0 THEN 0
  ELSE IF calls[k][1] = name THEN k
  ELSE LastCall(calls, name, k - 1)

\* The options pushed by the calls at places k .. Len(calls).
RECURSIVE PushedFrom(_, _)
PushedFrom(calls, k) ==
  IF k > Len(calls) THEN <<>>
  ELSE (CASE calls[k][1] = "add_option" -> <<calls[k][2]>>
          [] calls[k][1] = "readable" -> <<MapReadable>>
          [] calls[k][1] = "writable" -> <<MapWritable>>
          [] OTHER -> <<>>)
       \o PushedFrom(calls, k + 1)

ExpectedCapacity(calls) ==
  LET k == LastCall(calls, "capacity", Len(calls))
  IN IF k = 0 THEN 0 ELSE calls[k][2]

ExpectedOptions(calls) ==
  LET k == LastCall(calls, "options", Len(calls))
  IN (IF k = 0 THEN <<>> ELSE calls[k][2])
     \o PushedFrom(calls, k + 1)
     \o (IF LastCall(calls, "file", Len(calls)) = 0 THEN <<>>
         ELSE <<MapFd, MapShared>>)

\* ----------------------------------------------------------------- claims
\* C1: a write of v at an index below len() followed by a read of that
\* index returns v, whatever the buffer held before.
C1_WriteThenRead ==
  (/\ lastOp.op = "index"
   /\ lastOp.prev[1] = "index_mut"
   /\ lastOp.prev[2] = lastOp.idx
   /\ lastOp.prev[4] = "ok")
  => (lastOp.res = "ok" /\ lastOp.val = lastOp.prev[3])

C1_Witness ==
  /\ lastOp.op = "index"
  /\ lastOp.prev = <<"index_mut", 1, 258, "ok">>
  /\ lastOp.idx = 1
  /\ BufLen = 2
  /\ Elements(map.bytes, BufLen) = <<258, 258>>
  /\ file

\* C2: a read or a write at an index >= len() panics, is not redirected to
\* another index, and leaves the mapping, the file and len() as they were.
C2_OutOfRange ==
  [][(/\ phase' = "built"
      /\ lastOp'.op \in {"index", "index_mut"}
      /\ lastOp'.idx >= capacity')
     => (/\ lastOp'.res = "panic"
         /\ map' = map
         /\ fileBytes' = fileBytes
         /\ capacity' = capacity)]_vars

C2_Witness ==
  /\ lastOp.op = "index_mut"
  /\ lastOp.idx = 2
  /\ lastOp.val = 258
  /\ lastOp.res = "panic"
  /\ BufLen = 2
  /\ Elements(map.bytes, BufLen) = <<258, 0>>

\* C3: len() is the capacity last given to the builder right after
\* build(), and no operation on the buffer changes it.
C3_LenFixed ==
  [][/\ (phase = "config" /\ phase' = "built")
          => BufLen' = ExpectedCapacity(chain)
     /\ (phase = "built" /\ phase' = "built") => BufLen' = BufLen]_vars

C3_Witness ==
  /\ phase = "built"
  /\ lastOp.op = "for_each"
  /\ BufLen = 2

\* C4 as stated: build() with capacity 0 succeeds with an empty buffer.
C4_ZeroCapacityBuilds ==
  (lastOp.op = "build" /\ lastOp.idx = 0)
  => (lastOp.res = "ok" /\ phase = "built" /\ BufLen = 0)

\* C4 as amended: build() with capacity 0 never produces a buffer: the
\* mapping of zero bytes is refused and build() panics, unless the resize
\* of the file has failed before.
C4_ZeroCapacityFails ==
  (lastOp.op = "build" /\ lastOp.idx = 0)
  => (lastOp.res \in {"panic_map", "panic_set_len"} /\ phase = "none")

C4_Witness ==
  /\ lastOp.op = "build"
  /\ lastOp.idx = 0
  /\ lastOp.res = "panic_map"
  /\ Has(lastOp.options, MapFd)

\* C5: after fill(f) every element i below len() is f(i), whatever it was
\* before, and iter() and get_data_as_slice() yield f(0) .. f(len()-1) in
\* index order, len() items in all.
C5_Fill ==
  lastOp.op = "fill"
  => /\ \A i \in 0..(BufLen - 1) : ElemAt(map.bytes, i) = lastOp.fn[i]
     /\ Len(Elements(map.bytes, BufLen)) = BufLen
     /\ Elements(map.bytes, BufLen) = [i \in 1..BufLen |-> lastOp.fn[i - 1]]

C5_Witness ==
  /\ lastOp.op = "fill"
  /\ BufLen = 2
  /\ Elements(lastOp.before, BufLen) = <<258, 0>>
  /\ Elements(map.bytes, BufLen) = <<0, 258>>

\* C6: during par_iter_mut().for_each(g) no two workers hold the same
\* index and no index is visited twice; when for_each returns every index
\* was visited once and the buffer holds what iter_mut().for_each(g) gives.
C6_Parallel ==
  /\ par.active
     => /\ \A c, d \in DOMAIN par.chunks :
             (c # d /\ par.chunks[c].holding /\ par.chunks[d].holding)
             => par.chunks[c].next # par.chunks[d].next
        /\ \A i \in DOMAIN par.visits : par.visits[i] <= 1
  /\ lastOp.op = "for_each"
     => /\ \A i \in 0..(BufLen - 1) : lastOp.out[i] = 1
        /\ map.bytes = ForEachLoop(lastOp.before, lastOp.fn, 0, BufLen)

C6_Witness ==
  /\ lastOp.op = "for_each"
  /\ lastOp.idx = 2
  /\ BufLen = 2
  /\ Elements(lastOp.before, BufLen) = <<258, 0>>
  /\ Elements(map.bytes, BufLen) = <<0, 258>>

\* C7: a file-backed buffer built over the file a dropped file-backed
\* buffer of the same capacity wrote holds the elements that buffer held;
\* a file of exactly capacity * size_of(T) bytes is mapped unchanged.
C7_RoundTrip ==
  (lastOp.op = "build" /\ lastOp.res = "ok" /\ file)
  => /\ (saved.valid /\ Len(saved.elems) = BufLen)
          => Elements(map.bytes, BufLen) = saved.elems
     /\ Len(lastOp.before) = BufLen * SizeOfT
          => (fileBytes = lastOp.before /\ map.bytes = lastOp.before)

C7_Witness ==
  /\ lastOp.op = "build"
  /\ lastOp.res = "ok"
  /\ file
  /\ saved.valid
  /\ saved.elems = <<0, 258>>
  /\ BufLen = 2

\* C8: when the creation of the mapping fails, build() leaves the file
\* with the length and contents it had and produces no buffer.
C8_NoPartialState ==
  (lastOp.op = "build" /\ lastOp.res = "panic_map")
  => (phase = "none" /\ fileBytes = lastOp.before)

\* C9: build() uses the capacity of the last capacity() call (0 without
\* one) and hands to the mapping the list of the last options() call,
\* then the options pushed after it in call order, then, with a file, the
\* descriptor and the shared flag.
C9_Builder ==
  (lastOp.op = "build" /\ lastOp.res \in {"ok", "panic_map"})
  => /\ lastOp.idx = ExpectedCapacity(lastOp.chain)
     /\ lastOp.options = ExpectedOptions(lastOp.chain)

C9_Witness ==
  /\ lastOp.op = "build"
  /\ lastOp.res = "panic_map"
  /\ lastOp.chain = << <<"writable">>,
                       <<"options", <<MapReadable, MapWritable>>>>,
                       <<"add_option", MapExecutable>> >>

\* C10: the elements of a built buffer lie inside its mapping:
\* len() * size_of(T) <= the byte length of the mapping.
C10_WithinMapping ==
  phase = "built" => BufLen * SizeOfT <= Len(map.bytes)

====
